---- MODULE Spec2Model ----
(***************************************************************************)
(* A model of offline.py: the sequential pipeline of main(), the           *)
(* PackageListing inventory setter, the temporary AUR build user of        *)
(* BobTheBuilder.build_aur_packages, the staging of external resources and *)
(* the autorun snippet.  External tools (pacman, makepkg, repo-add,        *)
(* mkarchiso, git, urllib) are nondeterministic outcomes.                  *)
(*                                                                         *)
(* Text is modelled as a sequence of one-character strings, a file as a    *)
(* sequence of lines, a directory as a set of entries.                     *)
(***************************************************************************)
EXTENDS Integers, Sequences, FiniteSets, TLC

VARIABLES
    pc,                 \* position of main(): the call about to be made
    trace,              \* the calls and external commands made so far, in order
    arguments,          \* archinstall.arguments
    host,               \* the build host outside the build directory
    initial,            \* the host and the build directory when the run started
    first_run,          \* what an earlier run of the same command line left
    packages,           \* x._packages._inventory
    aur_packages,       \* x._aur_packages._inventory
    package_file,       \* BUILD_DIR/packages.x86_64, a file of lines
    cache,              \* PACMAN_CACHE_DIR, a directory of package files
    pacdb,              \* PACMAN_TEMPORARY_BUILD_DB, a directory
    saved_cache,        \* ./<repo name> in the working directory, a directory
    saved_pacdb,        \* ./tmp.pacdb in the working directory, a directory
    zprofile,           \* BUILD_DIR/airootfs/root/.zprofile, a file
    resources_dir,      \* BUILD_DIR/airootfs/root/resources/, a directory
    found_aur_user,     \* locals of build_aur_packages
    found_aur_user_sudo_entry,
    found_aur_user_sudo_entry_in_sudoers,
    sudo_entries,
    index               \* loop position in the running for-loop (1-based)

vars == <<pc, trace, arguments, host, initial, first_run, packages, aur_packages,
          package_file, cache, pacdb, saved_cache, saved_pacdb, zprofile,
          resources_dir,
          found_aur_user, found_aur_user_sudo_entry,
          found_aur_user_sudo_entry_in_sudoers, sudo_entries, index>>

\* a path that holds a file (its content), a directory (its entries) or nothing
NoFile == [exists |-> FALSE, content |-> <<>>]
File(content) == [exists |-> TRUE, content |-> content]
NoDir == [exists |-> FALSE, entries |-> {}]
Dir(entries) == [exists |-> TRUE, entries |-> entries]

Range(s) == {s[i] : i \in DOMAIN s}

\* str.startswith / str.endswith / the `in` operator on strings
StartsWith(s, p) == Len(s) >= Len(p) /\ SubSeq(s, 1, Len(p)) = p
EndsWith(s, p) == Len(s) >= Len(p) /\ SubSeq(s, Len(s) - Len(p) + 1, Len(s)) = p
Contains(s, p) == \E i \in 1..(Len(s) + 1) :
                      i + Len(p) - 1 <= Len(s) /\ SubSeq(s, i, i + Len(p) - 1) = p

\* str.strip() of a line of the package file
RECURSIVE LStrip(_)
LStrip(s) == IF s # <<>> /\ Head(s) \in {" ", "\n"} THEN LStrip(Tail(s)) ELSE s
RECURSIVE RStrip(_)
RStrip(s) == IF s # <<>> /\ s[Len(s)] \in {" ", "\n"}
             THEN RStrip(SubSeq(s, 1, Len(s) - 1)) ELSE s
Strip(s) == RStrip(LStrip(s))

(***************************************************************************)
(* Bounded inputs.                                                         *)
(***************************************************************************)
\* How many of the inputs (arguments and host facts) differ from the default
\* run at once.
MaxVaried == 2

\* package names: "n", "b", "k" are in the official index, "y", "yb", "z" are
\* AUR names, "n;" has a character outside [a-zA-Z0-9-_]
PkgN == <<"n">>
PkgB == <<"b">>
PkgK == <<"k">>
PkgY == <<"y">>
PkgYB == <<"y", "b">>
PkgZ == <<"z">>
PkgBad == <<"n", ";">>
PackageIndex == {PkgN, PkgB, PkgK}

\* /usr/share/archiso/configs/<template>/packages.x86_64
TemplatePackageFile == << <<"#", " ", "r", "\n">>, <<"b", "\n">>, <<"\n">>, <<"k", "\n">> >>

PackagesArgs == {<<>>, <<PkgN>>, <<PkgN, PkgBad>>, <<PkgY>>}
AurPackagesArgs == {<<>>, <<PkgY>>, <<PkgY, PkgZ>>, <<PkgYB, PkgY>>}
PromptAnswers == {<<>>, <<PkgN>>}

Https == <<"h", "t", "t", "p", "s", ":", "/", "/">>
GitScheme == <<"g", "i", "t", ":", "/", "/">>
DotGit == <<".", "g", "i", "t">>
ResHttps == Https \o <<"a">>
ResHttpsGit == Https \o <<"a">> \o DotGit
ResGit == GitScheme \o <<"a">>
ResLocal == <<"/", "a">>
ResLocalGit == <<"/", "a">> \o DotGit
ResRelative == <<"a">>
\* the value of --resources after .split(',')
ResourcesArgs == {<< <<>> >>, <<ResHttps>>, <<ResHttpsGit>>, <<ResGit, ResLocal>>,
                  <<ResRelative, ResLocal>>, <<ResLocalGit>>}

Quote == "\""
\* --autorun: not given (None), or its text
NoAutorun == [given |-> FALSE, text |-> <<>>]
Autorun(text) == [given |-> TRUE, text |-> text]
AutorunArgs == {NoAutorun, Autorun(<<>>), Autorun(<<"l", "s">>),
                Autorun(<<"a", Quote, "b">>)}

\* the build user (--aur-user, default aoffline_usr) and lines of /etc/sudoers
sudo_user == <<"a", "u", "r">>
GrantText == <<" ", "ALL=(ALL) NOPASSWD: ALL", "\n">>
LineRoot == <<"r", "o", "o", "t">> \o GrantText
LineGrant == sudo_user \o GrantText
LineComment == <<"#">> \o sudo_user \o GrantText
LineOther == <<"x">> \o sudo_user \o GrantText
SudoersFiles == {<<LineRoot>>, <<LineRoot, LineGrant>>, <<LineRoot, LineComment>>,
                 <<LineRoot, LineOther>>}
DropinFiles == {NoFile, File(<<LineGrant>>),
                File(<<sudo_user \o <<" ", "ALL=(ALL) ALL", "\n">> >>)}

\* a binary package file <pkgname>-<version>.pkg.tar.zst
PkgFile(name) == name \o <<"-1-any", ".pkg", ".tar.zst">>
\* a source snapshot and its extracted build directory in the home directory
Archive(name) == name \o <<".tar.gz">>
BuildTree(name) == name \o <<"/">>

\* a build directory left by an earlier run: its package file, cache, .zprofile
PreviousBuilds ==
    { [package_file |-> NoFile, cache |-> NoDir, pacdb |-> NoDir, zprofile |-> NoFile],
      [package_file |-> File(TemplatePackageFile), cache |-> Dir({PkgFile(PkgB)}),
       pacdb |-> Dir({}), zprofile |-> NoFile],
      [package_file |-> File(<< <<"n", "\n">>, <<"b", "\n">>, <<"y", "\n">> >>),
       cache |-> Dir({PkgFile(PkgN), PkgFile(PkgB), PkgFile(PkgYB)}),
       pacdb |-> Dir({}),
       zprofile |-> File(<<"o", "l", "d">>)] }

DefaultArguments ==
    [silent |-> FALSE, skip_validation |-> FALSE, rebuild |-> FALSE,
     save_offline_repository_cache |-> FALSE, archinstall |-> FALSE,
     packages |-> <<PkgN>>, aur_packages |-> <<PkgY>>,
     resources |-> << <<>> >>, autorun |-> NoAutorun]

ArgumentSpace ==
    [silent : BOOLEAN, skip_validation : BOOLEAN, rebuild : BOOLEAN,
     save_offline_repository_cache : BOOLEAN, archinstall : BOOLEAN,
     packages : PackagesArgs, aur_packages : AurPackagesArgs,
     resources : ResourcesArgs, autorun : AutorunArgs]

\* home: the path /home/<user> is absent, a directory (its entries) or a file
HomeStates == {[kind |-> "absent", entries |-> {}], [kind |-> "dir", entries |-> {}],
               [kind |-> "file", entries |-> {}]}

DefaultHost ==
    [user |-> FALSE, sudoers |-> <<LineRoot>>, dropin |-> NoFile,
     home |-> [kind |-> "absent", entries |-> {}],
     previous |-> [package_file |-> NoFile, cache |-> NoDir, pacdb |-> NoDir,
                   zprofile |-> NoFile],
     saved |-> [cache |-> NoDir, pacdb |-> NoDir]]

HostSpace ==
    { h \in [user : BOOLEAN, sudoers : SudoersFiles, dropin : DropinFiles,
             home : HomeStates, previous : PreviousBuilds,
             saved : {[cache |-> NoDir, pacdb |-> NoDir],
                      [cache |-> Dir({PkgFile(PkgK)}), pacdb |-> Dir({})]}] :
        \* an account without a usable home directory is one that already exists
        /\ h.home.kind = "file" => h.user }

Varied(r, default) == Cardinality({k \in DOMAIN r : r[k] # default[k]})

(***************************************************************************)
(* Initial state: the process has started, nothing has run.                *)
(***************************************************************************)
\* no earlier run of this command line
NoRun == [ran |-> FALSE, fresh |-> FALSE, package_file |-> NoFile]

Init ==
    \E a \in {r \in ArgumentSpace : Varied(r, DefaultArguments) <= MaxVaried},
       h \in {r \in HostSpace : Varied(r, DefaultHost) <= MaxVaried} :
        /\ Varied(a, DefaultArguments) + Varied(h, DefaultHost) <= MaxVaried
        /\ arguments = a
        /\ host = [user |-> h.user, sudoers |-> h.sudoers, dropin |-> h.dropin,
                   home |-> h.home]
        /\ initial = [host |-> [user |-> h.user, sudoers |-> h.sudoers,
                                 dropin |-> h.dropin, home |-> h.home],
                       package_file |-> h.previous.package_file,
                       cache |-> h.previous.cache,
                       zprofile |-> h.previous.zprofile]
        /\ package_file = h.previous.package_file
        /\ cache = h.previous.cache
        /\ pacdb = h.previous.pacdb
        /\ zprofile = h.previous.zprofile
        /\ saved_cache = h.saved.cache
        /\ saved_pacdb = h.saved.pacdb
        /\ first_run = NoRun
        /\ pc = "sanity_checks"
        /\ trace = <<>>
        /\ packages = <<>>
        /\ aur_packages = <<>>
        /\ resources_dir = NoDir
        /\ found_aur_user = FALSE
        /\ found_aur_user_sudo_entry = FALSE
        /\ found_aur_user_sudo_entry_in_sudoers = FALSE
        /\ sudo_entries = <<>>
        /\ index = 0

\* a call or external command appended to the trace
Call(op, arg) == [op |-> op, arg |-> arg]
Called(op) == \E i \in DOMAIN trace : trace[i].op = op

\* the process has ended: main returned, exit(1) was called, or an exception
\* nobody catches ended it with a traceback (status 1)
Ended == pc \in {"done", "exit", "raised"}

locals == <<found_aur_user, found_aur_user_sudo_entry,
            found_aur_user_sudo_entry_in_sudoers, sudo_entries, index>>
sandbox == <<host, locals>>
listings == <<packages, aur_packages>>
history == <<initial, first_run>>
build_dir == <<package_file, cache, pacdb, zprofile, resources_dir>>
saved == <<saved_cache, saved_pacdb>>

(***************************************************************************)
(* sanity_checks: root and archiso are required.                           *)
(***************************************************************************)
sanity_checks ==
    /\ pc = "sanity_checks"
    /\ \E is_root \in BOOLEAN, has_archiso \in BOOLEAN :
          /\ trace' = Append(trace, Call("sanity_checks", <<>>))
          /\ pc' = IF is_root /\ has_archiso THEN "set_packages" ELSE "exit"
    /\ UNCHANGED <<arguments, history, sandbox, listings, build_dir, saved>>

(***************************************************************************)
(* PackageListing                                                          *)
(***************************************************************************)
\* archinstall.validate_package_list: every name is in the package index
ValidatePackageList(value) == \A i \in DOMAIN value : value[i] \in PackageIndex

\* the inventory setter, called with a list of strings: is the external
\* validation run, does it end the process, and what the inventory becomes
InventorySetter(value, inventory) ==
    LET validate == arguments.skip_validation
        rejected == validate /\ ~ValidatePackageList(value)
    IN  [validated |-> validate,
         exit |-> rejected,
         inventory |-> IF rejected THEN inventory ELSE value]

SetterCalls(listing, value, result) ==
    <<Call(listing, value)>>
    \o (IF result.validated THEN <<Call("validate_package_list", value)>> ELSE <<>>)

\* main: x.packages = --packages, or the answer to the prompt
set_packages ==
    /\ pc = "set_packages"
    /\ IF arguments.silent = FALSE
       THEN \E value \in (IF arguments.packages # <<>> THEN {arguments.packages}
                          ELSE PromptAnswers) :
              LET result == InventorySetter(value, packages) IN
                /\ packages' = result.inventory
                /\ trace' = trace \o SetterCalls("x.packages =", value, result)
                /\ pc' = IF result.exit THEN "exit" ELSE "set_aur_packages"
       ELSE /\ pc' = "save_caches"
            /\ UNCHANGED <<packages, trace>>
    /\ UNCHANGED <<arguments, history, sandbox, aur_packages, build_dir, saved>>

\* main: x.aur_packages = --aur-packages, or the answer to the prompt
set_aur_packages ==
    /\ pc = "set_aur_packages"
    /\ \E value \in (IF arguments.aur_packages # <<>> THEN {arguments.aur_packages}
                     ELSE {<<>>, <<PkgY>>}) :
          LET result == InventorySetter(value, aur_packages) IN
            /\ aur_packages' = result.inventory
            /\ trace' = trace \o SetterCalls("x.aur_packages =", value, result)
            /\ pc' = IF result.exit THEN "exit" ELSE "save_caches"
    /\ UNCHANGED <<arguments, history, sandbox, packages, build_dir, saved>>

(***************************************************************************)
(* BuildEnvironment                                                        *)
(***************************************************************************)
\* move_folder: the source and destination afterwards, and whether it exits
move_folder(source, destination, force) ==
    IF ~source.exists
    THEN [exit |-> FALSE, source |-> source, destination |-> destination]
    ELSE IF destination.exists /\ force = FALSE /\ ~arguments.silent
    THEN [exit |-> TRUE, source |-> source, destination |-> destination]
    ELSE [exit |-> FALSE, source |-> NoDir, destination |-> source]

\* main: "Save potential cache directories to avoid network load"
save_caches ==
    /\ pc = "save_caches"
    /\ IF arguments.save_offline_repository_cache
       THEN LET first == move_folder(cache, saved_cache, FALSE)
                second == move_folder(pacdb, saved_pacdb, TRUE) IN
              /\ cache' = first.source
              /\ saved_cache' = first.destination
              /\ pacdb' = IF first.exit THEN pacdb ELSE second.source
              /\ saved_pacdb' = IF first.exit THEN saved_pacdb ELSE second.destination
              /\ pc' = IF first.exit THEN "exit" ELSE "clean_old_build_information"
              /\ trace' = Append(trace, Call("move_folder", <<>>))
       ELSE /\ pc' = "clean_old_build_information"
            /\ UNCHANGED <<cache, saved_cache, pacdb, saved_pacdb, trace>>
    /\ UNCHANGED <<arguments, history, sandbox, listings, package_file, zprofile, resources_dir>>

\* main: --rebuild removes the build directory and everything under it
clean_old_build_information ==
    /\ pc = "clean_old_build_information"
    /\ IF arguments.rebuild
       THEN /\ package_file' = NoFile
            /\ cache' = NoDir
            /\ pacdb' = NoDir
            /\ zprofile' = NoFile
            /\ resources_dir' = NoDir
            /\ trace' = Append(trace, Call("clean_old_build_information", <<>>))
       ELSE UNCHANGED <<build_dir, trace>>
    /\ pc' = "create_build_dir_for_conf"
    /\ UNCHANGED <<arguments, history, sandbox, listings, saved>>

\* the template is copied object by object, skipping what the build directory
\* already has; the temporary package database directory is made
create_build_dir_for_conf ==
    /\ pc = "create_build_dir_for_conf"
    /\ package_file' = IF package_file.exists THEN package_file
                       ELSE File(TemplatePackageFile)
    /\ pacdb' = IF pacdb.exists THEN pacdb ELSE Dir({})
    /\ trace' = Append(trace, Call("create_build_dir_for_conf", <<>>))
    /\ pc' = "create_pacman_conf_for_sync"
    /\ UNCHANGED <<arguments, history, sandbox, listings, cache, zprofile, resources_dir, saved>>

\* apply_offline_patches and create_pacman_conf_for_sync write files that no
\* later step of this model reads
create_pacman_conf_for_sync ==
    /\ pc = "create_pacman_conf_for_sync"
    /\ trace' = trace \o <<Call("apply_offline_patches", <<>>),
                           Call("create_pacman_conf_for_sync", <<>>)>>
    /\ pc' = "load_default_packages"
    /\ UNCHANGED <<arguments, history, sandbox, listings, build_dir, saved>>

\* the lines of the package file that name a package, stripped
RECURSIVE ReadPackageFile(_)
ReadPackageFile(lines) ==
    IF lines = <<>> THEN <<>>
    ELSE LET line == Head(lines) IN
         (IF line[1] = "#" \/ Len(Strip(line)) = 0 THEN <<>> ELSE <<Strip(line)>>)
         \o ReadPackageFile(Tail(lines))

\* self.packages += packages: the list is extended in place, then handed to
\* the setter
load_default_packages ==
    /\ pc = "load_default_packages"
    /\ LET value == packages \o ReadPackageFile(package_file.content)
           result == InventorySetter(value, value) IN
         /\ packages' = value
         /\ trace' = trace \o SetterCalls("self.packages +=", value, result)
         /\ pc' = IF result.exit THEN "exit" ELSE "restore_caches"
    /\ UNCHANGED <<arguments, history, sandbox, aur_packages, build_dir, saved>>

\* main: "Move back the saved caches"
restore_caches ==
    /\ pc = "restore_caches"
    /\ IF arguments.save_offline_repository_cache
       THEN LET first == move_folder(cache, saved_cache, TRUE)
                second == move_folder(pacdb, saved_pacdb, TRUE) IN
              /\ cache' = first.source
              /\ saved_cache' = first.destination
              /\ pacdb' = second.source
              /\ saved_pacdb' = second.destination
              /\ trace' = Append(trace, Call("move_folder", <<>>))
       ELSE UNCHANGED <<cache, saved_cache, pacdb, saved_pacdb, trace>>
    /\ pc' = "build_aur_packages"
    /\ UNCHANGED <<arguments, history, sandbox, listings, package_file, zprofile, resources_dir>>

(***************************************************************************)
(* build_aur_packages: the temporary build user, the per-package loop and  *)
(* the removal of what was created.                                        *)
(***************************************************************************)
\* a line of /etc/sudoers that mentions the build user and is no comment
MentionsUser(line) == Contains(line, sudo_user) /\ ~StartsWith(line, <<"#">>)
FoundInSudoers(lines) == \E i \in DOMAIN lines : MentionsUser(lines[i])

\* useradd -m when the user is missing; the drop-in when no entry was found
CreateUser(h, found_user) ==
    IF found_user THEN h
    ELSE [h EXCEPT !.user = TRUE,
                   !.home = IF h.home.kind = "absent"
                            THEN [kind |-> "dir", entries |-> {}] ELSE h.home]

CreateSudoEntry(h, found_entry) ==
    IF found_entry THEN h ELSE [h EXCEPT !.dropin = File(<<LineGrant>>)]

RemoveUserAlways(h, found_user) ==
    [h EXCEPT !.user = FALSE, !.home = [kind |-> "absent", entries |-> {}]]

\* userdel and rmtree of the home directory when this run made the user
RemoveUser(h, found_user) ==
    IF found_user THEN h
    ELSE [h EXCEPT !.user = FALSE, !.home = [kind |-> "absent", entries |-> {}]]

\* the sudoers entry is removed when this run made it
RemoveSudoEntry(h, found_entry, found_in_sudoers, entries) ==
    IF found_entry THEN h
    ELSE IF found_in_sudoers THEN [h EXCEPT !.sudoers = entries]
    ELSE [h EXCEPT !.dropin = NoFile]

build_aur_packages ==
    /\ pc = "build_aur_packages"
    /\ IF Len(aur_packages) = 0
       THEN /\ pc' = "download_package_list"
            /\ UNCHANGED <<sandbox, trace>>
       ELSE LET in_sudoers == FoundInSudoers(host.sudoers)
                entry == in_sudoers \/ host.dropin.exists IN
              /\ found_aur_user' = host.user
              /\ found_aur_user_sudo_entry_in_sudoers' = in_sudoers
              /\ found_aur_user_sudo_entry' = entry
              /\ sudo_entries' = host.sudoers
              /\ host' = CreateSudoEntry(CreateUser(host, host.user), entry)
              /\ index' = 1
              /\ trace' = trace
                    \o <<Call("build_aur_packages", <<>>)>>
                    \o (IF host.user THEN <<>> ELSE <<Call("useradd", sudo_user)>>)
                    \o (IF entry THEN <<>> ELSE <<Call("write sudoers.d", sudo_user)>>)
              /\ pc' = "build_aur_package"
    /\ UNCHANGED <<arguments, history, listings, build_dir, saved>>

\* glob <cache>/<package_name>*.pkg*
GlobPkg(file, package_name) ==
    /\ StartsWith(file, package_name)
    /\ Contains(SubSeq(file, Len(package_name) + 1, Len(file)), <<".pkg">>)
package_exists(package_name) ==
    {f \in cache.entries : cache.exists /\ GlobPkg(f, package_name)}

\* how one pass of the loop over a package that is to be built can go: the
\* step that raises, or how makepkg ends
BuildOutcomes == {"fetch raises", "tar raises", "PKGBUILD raises", "gpg raises",
                  "makepkg raises", "makepkg nonzero", "no artifact", "built"}
Raises(outcome) == outcome \in {"fetch raises", "tar raises", "PKGBUILD raises",
                                "gpg raises", "makepkg raises"}
Fetched(outcome) == outcome # "fetch raises"
Extracted(outcome) == outcome \notin {"fetch raises", "tar raises"}
ReachedKeys(outcome) == outcome \notin {"fetch raises", "tar raises", "PKGBUILD raises"}
ReachedMakepkg(outcome) == ReachedKeys(outcome) /\ outcome # "gpg raises"

AfterBuildFatal(outcome) ==
    IF Raises(outcome) THEN "raised"
    ELSE IF outcome \in {"makepkg nonzero", "no artifact"} THEN "exit"
    ELSE IF index = Len(aur_packages) THEN "remove_build_user"
    ELSE "build_aur_package"

\* where the loop goes after a pass that ended with this outcome
AfterBuild(outcome) ==
    IF Raises(outcome) THEN "raised"
    ELSE IF index = Len(aur_packages) THEN "remove_build_user"
    ELSE "build_aur_package"

\* the home directory after a pass over package
HomeAfter(home, package, outcome) ==
    [kind |-> "dir",
     entries |->
        IF outcome = "built" THEN home.entries \ {Archive(package), BuildTree(package)}
        ELSE home.entries
             \cup (IF Fetched(outcome) THEN {Archive(package)} ELSE {})
             \cup (IF Extracted(outcome) THEN {BuildTree(package)} ELSE {})]

\* the repository cache after a pass over package
CacheAfter(dir, package, outcome) ==
    IF outcome = "built" THEN Dir(dir.entries \cup {PkgFile(package)}) ELSE dir

BuildCalls(package, outcome, has_keys) ==
    <<Call("urlretrieve", package)>>
    \o (IF Fetched(outcome) THEN <<Call("tar", package)>> ELSE <<>>)
    \o (IF ReachedKeys(outcome) /\ has_keys THEN <<Call("gpg", package)>> ELSE <<>>)
    \o (IF ReachedMakepkg(outcome) THEN <<Call("makepkg", package)>> ELSE <<>>)
    \o (IF outcome \in {"makepkg nonzero", "no artifact"}
        THEN <<Call("log: Could not build", package)>> ELSE <<>>)
    \o (IF outcome = "built" THEN <<Call("move to cache", package)>> ELSE <<>>)

\* one pass of `for package in self.aur_packages`
build_aur_package ==
    /\ pc = "build_aur_package"
    /\ LET package == aur_packages[index]
           next == IF index = Len(aur_packages) THEN "remove_build_user"
                   ELSE "build_aur_package" IN
         IF package_exists(package) # {} /\ arguments.rebuild = FALSE
         THEN /\ pc' = next
              /\ UNCHANGED <<host, cache, trace>>
         ELSE IF host.home.kind = "file"
         THEN \* download_file returns False
              /\ pc' = next
              /\ trace' = Append(trace, Call("log: Could not retrieve", package))
              /\ UNCHANGED <<host, cache>>
         ELSE \E outcome \in BuildOutcomes, has_keys \in BOOLEAN :
              /\ outcome = "gpg raises" => has_keys
              /\ ~ReachedKeys(outcome) => ~has_keys
              /\ host' = [host EXCEPT !.home = HomeAfter(host.home, package, outcome)]
              /\ cache' = CacheAfter(cache, package, outcome)
              /\ trace' = trace \o BuildCalls(package, outcome, has_keys)
              /\ pc' = AfterBuild(outcome)
    /\ index' = index + 1
    /\ UNCHANGED <<arguments, history, listings, package_file, pacdb, zprofile, resources_dir,
                   saved, found_aur_user, found_aur_user_sudo_entry,
                   found_aur_user_sudo_entry_in_sudoers, sudo_entries>>

\* after the loop: what this run created is removed, build_aur_packages returns
remove_build_user ==
    /\ pc = "remove_build_user"
    /\ host' = RemoveSudoEntry(RemoveUser(host, found_aur_user),
                               found_aur_user_sudo_entry,
                               found_aur_user_sudo_entry_in_sudoers, sudo_entries)
    /\ trace' = trace
          \o (IF found_aur_user THEN <<>> ELSE <<Call("userdel", sudo_user)>>)
          \o (IF found_aur_user_sudo_entry THEN <<>>
              ELSE <<Call("remove sudoers entry", sudo_user)>>)
          \o <<Call("build_aur_packages returns", <<>>)>>
    /\ pc' = "download_package_list"
    /\ UNCHANGED <<arguments, history, listings, build_dir, saved, locals>>

(***************************************************************************)
(* Sync, index, package file, build-time config.                           *)
(***************************************************************************)
RepoDb == <<"localrepo", ".db.tar.gz">>

AfterCommandUnchecked(exit_status, next) == next

\* where main goes after a command that ended with exit_status
AfterCommand(exit_status, next) == IF exit_status # 0 THEN "exit" ELSE next

SyncTargetsWithAur == packages \o aur_packages

\* the targets of the sync: ' '.join(self.packages)
SyncTargets == packages

\* pacman --noconfirm --config <sync conf> -Syw <packages>
download_package_list ==
    /\ pc = "download_package_list"
    /\ \E exit_status \in {0, 1} :
          /\ trace' = trace \o <<Call("pacman -Syw", SyncTargets),
                                 Call("exit status", <<exit_status>>)>>
          /\ cache' = IF exit_status = 0
                      THEN Dir(cache.entries
                               \cup {PkgFile(SyncTargets[i]) : i \in DOMAIN SyncTargets})
                      ELSE cache
          /\ pc' = AfterCommand(exit_status, "update_offline_repo_database")
    /\ UNCHANGED <<arguments, history, sandbox, listings, package_file, pacdb, zprofile,
                   resources_dir, saved>>

\* repo-add <cache>/<repo>.db.tar.gz <cache>/{*.pkg.tar.xz,*.pkg.tar.zst}
update_offline_repo_database ==
    /\ pc = "update_offline_repo_database"
    /\ \E exit_status \in {0, 1} :
          /\ trace' = trace \o <<Call("repo-add", <<>>),
                                 Call("exit status", <<exit_status>>)>>
          /\ cache' = IF exit_status = 0 THEN Dir(cache.entries \cup {RepoDb}) ELSE cache
          /\ pc' = AfterCommand(exit_status, "write_packages_to_package_file")
    /\ UNCHANGED <<arguments, history, sandbox, listings, package_file, pacdb, zprofile,
                   resources_dir, saved>>

\* one line per package, the AUR packages after the others
WritePackageFile(official, aur) ==
    [i \in 1..(Len(official) + Len(aur)) |-> (official \o aur)[i] \o <<"\n">>]

write_packages_to_package_file ==
    /\ pc = "write_packages_to_package_file"
    /\ package_file' = File(WritePackageFile(packages, aur_packages))
    /\ trace' = Append(trace, Call("write_packages_to_package_file", <<>>))
    /\ pc' = "create_pacman_conf_for_build"
    /\ UNCHANGED <<arguments, history, sandbox, listings, cache, pacdb, zprofile, resources_dir,
                   saved>>

create_pacman_conf_for_build ==
    /\ pc = "create_pacman_conf_for_build"
    /\ trace' = Append(trace, Call("create_pacman_conf_for_build", <<>>))
    /\ pc' = "copy_in_external_resources"
    /\ UNCHANGED <<arguments, history, sandbox, listings, build_dir, saved>>

(***************************************************************************)
(* copy_in_external_resources                                              *)
(***************************************************************************)
\* what the loop does with one resource descriptor
Dispatch(resource) ==
    IF Len(resource) = 0 THEN "skip"
    ELSE IF ~(\/ StartsWith(resource, Https)
              \/ StartsWith(resource, GitScheme)
              \/ StartsWith(resource, <<"/">>)) THEN "ignore"
    ELSE IF StartsWith(resource, Https) THEN "download"
    ELSE IF StartsWith(resource, GitScheme) \/ EndsWith(resource, DotGit) THEN "clone"
    ELSE "copy"

\* how the chosen method can end: done, failed and logged, or an exception
\* that nothing catches
DispatchOutcomes(method) ==
    CASE method = "download" -> {"ok", "raises"}
      [] method = "clone" -> {"ok", "logged"}
      [] method = "copy" -> {"ok", "raises"}
      [] OTHER -> {"none"}

copy_in_external_resources ==
    /\ pc = "copy_in_external_resources"
    /\ index' = 1
    /\ trace' = Append(trace, Call("copy_in_external_resources", <<>>))
    /\ pc' = IF arguments.resources = <<>> THEN "insert_autorun_string"
             ELSE "copy_resource"
    /\ UNCHANGED <<arguments, history, host, listings, build_dir, saved, found_aur_user,
                   found_aur_user_sudo_entry, found_aur_user_sudo_entry_in_sudoers,
                   sudo_entries>>

\* one pass of `for resource in resources`
copy_resource ==
    /\ pc = "copy_resource"
    /\ LET resource == arguments.resources[index]
           method == Dispatch(resource) IN
         \E outcome \in DispatchOutcomes(method) :
            /\ trace' = IF method = "skip" THEN trace
                        ELSE Append(trace, Call(method, resource))
            /\ resources_dir' = IF outcome = "ok"
                                THEN Dir(resources_dir.entries \cup {resource})
                                ELSE resources_dir
            /\ pc' = IF outcome = "raises" THEN "raised"
                     ELSE IF index = Len(arguments.resources) THEN "insert_autorun_string"
                     ELSE "copy_resource"
    /\ index' = index + 1
    /\ UNCHANGED <<arguments, history, host, listings, package_file, cache, pacdb, zprofile,
                   saved, found_aur_user, found_aur_user_sudo_entry,
                   found_aur_user_sudo_entry_in_sudoers, sudo_entries>>

(***************************************************************************)
(* insert_autorun_string, the optional archinstall clone, mkarchiso        *)
(***************************************************************************)
Snippet(text) == <<"[[ -z $DISPLAY && $XDG_VTNR -eq 1 ]] && sh -c ", Quote>>
                 \o text \o <<Quote>>

InsertAutorunStringUnguarded(string, file) ==
    IF ~string.given \/ string.text = <<>> THEN [exit |-> FALSE, zprofile |-> file]
    ELSE [exit |-> FALSE, zprofile |-> File(Snippet(string.text))]

\* whether the call exits, and the .zprofile afterwards
InsertAutorunString(string, file) ==
    IF ~string.given \/ string.text = <<>> THEN [exit |-> FALSE, zprofile |-> file]
    ELSE IF Quote \in Range(string.text) THEN [exit |-> TRUE, zprofile |-> file]
    ELSE [exit |-> FALSE, zprofile |-> File(Snippet(string.text))]

insert_autorun_string ==
    /\ pc = "insert_autorun_string"
    /\ LET result == InsertAutorunString(arguments.autorun, zprofile) IN
         /\ zprofile' = result.zprofile
         /\ pc' = IF result.exit THEN "exit" ELSE "archinstall"
    /\ trace' = Append(trace, Call("insert_autorun_string", arguments.autorun.text))
    /\ UNCHANGED <<arguments, history, sandbox, listings, package_file, cache, pacdb,
                   resources_dir, saved>>

\* --archinstall: git clone of archinstall into the image root
archinstall ==
    /\ pc = "archinstall"
    /\ IF arguments.archinstall
       THEN \E cloned \in BOOLEAN :
              /\ trace' = Append(trace, Call("git clone archinstall", <<>>))
              /\ pc' = IF cloned THEN "mkarchiso" ELSE "exit"
       ELSE /\ pc' = "mkarchiso"
            /\ UNCHANGED trace
    /\ UNCHANGED <<arguments, history, sandbox, listings, build_dir, saved>>

mkarchiso ==
    /\ pc = "mkarchiso"
    /\ \E exit_status \in {0, 1} :
          /\ trace' = trace \o <<Call("mkarchiso", <<>>),
                                 Call("exit status", <<exit_status>>)>>
          /\ pc' = AfterCommand(exit_status, "done")
    /\ UNCHANGED <<arguments, history, sandbox, listings, build_dir, saved>>

Next ==
    \/ sanity_checks
    \/ set_packages
    \/ set_aur_packages
    \/ save_caches
    \/ clean_old_build_information
    \/ create_build_dir_for_conf
    \/ create_pacman_conf_for_sync
    \/ load_default_packages
    \/ restore_caches
    \/ build_aur_packages
    \/ build_aur_package
    \/ remove_build_user
    \/ download_package_list
    \/ update_offline_repo_database
    \/ write_packages_to_package_file
    \/ create_pacman_conf_for_build
    \/ copy_in_external_resources
    \/ copy_resource
    \/ insert_autorun_string
    \/ archinstall
    \/ mkarchiso

Spec == Init /\ [][Next]_vars

(***************************************************************************)
(* The command is run a second time with the same arguments once main has  *)
(* returned: a new process, so the listings, the locals and the log start  *)
(* empty, while the host, the build directory and the working directory    *)
(* are what the first run left.                                            *)
(***************************************************************************)
rerun ==
    /\ pc = "done"
    /\ ~first_run.ran
    /\ first_run' = [ran |-> TRUE,
                     fresh |-> ~initial.package_file.exists,
                     package_file |-> package_file]
    /\ initial' = [host |-> host, package_file |-> package_file,
                   cache |-> cache, zprofile |-> zprofile]
    /\ pc' = "sanity_checks"
    /\ trace' = <<>>
    /\ packages' = <<>>
    /\ aur_packages' = <<>>
    /\ found_aur_user' = FALSE
    /\ found_aur_user_sudo_entry' = FALSE
    /\ found_aur_user_sudo_entry_in_sudoers' = FALSE
    /\ sudo_entries' = <<>>
    /\ index' = 0
    /\ UNCHANGED <<arguments, host, build_dir, saved>>

NextRerun ==
    \/ Next
    \/ rerun

SpecRerun == Init /\ [][NextRerun]_vars

(***************************************************************************)
(* Properties                                                              *)
(***************************************************************************)
LastCall == trace[Len(trace)]
LastOp == IF trace = <<>> THEN "" ELSE LastCall.op
Calls(op) == {i \in DOMAIN trace : trace[i].op = op}
\* the command at position i of the trace exited with status zero
ExitedZero(i) == i < Len(trace) /\ trace[i + 1].op = "exit status"
                 /\ trace[i + 1].arg = <<0>>
ExitedNonZero(i) == i < Len(trace) /\ trace[i + 1].op = "exit status"
                    /\ trace[i + 1].arg # <<0>>

\* a sudo grant for the build user: its line in /etc/sudoers or its drop-in
IsGrantLine(line) == StartsWith(line, sudo_user \o <<" ">>)
HasGrant(h) == h.dropin.exists \/ \E i \in DOMAIN h.sudoers : IsGrantLine(h.sudoers[i])

\* C1: once build_aur_packages has returned, the build account exists iff it
\* existed when the run started and a sudo grant for it exists iff one existed
\* then; an account, a sudoers file or a drop-in that existed at the start is
\* never removed or changed.
C1_SandboxRestoredOnReturn ==
    /\ Called("build_aur_packages returns") =>
          /\ host.user = initial.host.user
          /\ HasGrant(host) = HasGrant(initial.host)
    /\ initial.host.user => host.user
    /\ host.sudoers = initial.host.sudoers
    /\ initial.host.dropin.exists => host.dropin = initial.host.dropin

\* the run made the account and the grant, and both are gone on return
C1_Witness ==
    /\ Called("build_aur_packages returns")
    /\ Called("useradd") /\ Called("write sudoers.d")
    /\ ~host.user /\ ~HasGrant(host)

\* C2: outside the source-build phase (before it, after it, and when the
\* process has ended in whatever way) there is no account and no grant that
\* this run created.
C2_SandboxOnlyDuringBuildPhase ==
    pc \notin {"build_aur_package", "remove_build_user"} =>
        /\ host.user => initial.host.user
        /\ HasGrant(host) => HasGrant(initial.host)

\* the sync and then the index ran and both exited zero
SyncAndIndexExitedZero ==
    \E i \in Calls("pacman -Syw"), j \in Calls("repo-add") :
        i < j /\ ExitedZero(i) /\ ExitedZero(j)

\* C3 as claimed: a run in which a package could not be built and whose sync
\* and index exited zero reaches the mkarchiso invocation: it is not ended by
\* exit(1) before mkarchiso was invoked.
C3_FailedBuildStillReachesMkarchiso ==
    (pc = "exit" /\ Called("log: Could not build") /\ SyncAndIndexExitedZero)
        => Called("mkarchiso")

\* the step in which makepkg exits non-zero or leaves no artifact
FailedBuildStep ==
    /\ pc = "build_aur_package"
    /\ trace' # trace
    /\ trace'[Len(trace')].op = "log: Could not build"

\* C3 amended: a failed build moves nothing into the cache and goes on to the
\* next package or to the end of the loop; from the build phase on no file
\* leaves the cache; and a run with a failed build whose sync and index exited
\* zero ends after mkarchiso was invoked unless a later step ended it (a
\* resource download or copy that raised, a rejected autorun string, a failed
\* archinstall clone).
C3_FailedBuildIsNotFatal ==
    /\ [][FailedBuildStep =>
            /\ cache' = cache
            /\ index' = index + 1
            /\ pc' = IF index = Len(aur_packages) THEN "remove_build_user"
                     ELSE "build_aur_package"]_vars
    /\ [][Called("build_aur_packages") => cache.entries \subseteq cache'.entries]_vars
    /\ []((Ended /\ Called("log: Could not build") /\ SyncAndIndexExitedZero)
            => \/ Called("mkarchiso")
               \/ LastOp \in {"download", "copy", "insert_autorun_string",
                              "git clone archinstall"})

\* the first package was built, the second was not, mkarchiso has run and the
\* first package's file is in the cache
C3_Witness ==
    /\ Called("mkarchiso")
    /\ \E i \in Calls("move to cache"), j \in Calls("log: Could not build") :
          /\ i < j
          /\ PkgFile(trace[i].arg) \in cache.entries
          /\ PkgFile(trace[j].arg) \notin cache.entries

\* C4: a fetch that fails does not end the run.
C4_FailedFetchDoesNotEndTheRun ==
    ~(pc = "raised" /\ LastOp = "urlretrieve")

\* what the user supplied as packages (nothing with --silent)
UserSupplied ==
    IF Calls("x.packages =") = {} THEN <<>>
    ELSE trace[CHOOSE i \in Calls("x.packages =") : TRUE].arg
\* the AUR packages whose build put a file into the cache
BuiltAur == {trace[i].arg : i \in Calls("move to cache")}

\* C5 as claimed: every AUR package that was built is among the targets of
\* the sync, next to the user's packages and the defaults.
C5_SyncListHasBuiltAurNames ==
    \A i \in Calls("pacman -Syw") :
        /\ Range(UserSupplied) \subseteq Range(trace[i].arg)
        /\ BuiltAur \subseteq Range(trace[i].arg)

\* the package file that load_default_packages reads: the one of the build
\* directory if it had one and was not rebuilt, else the template's copy
LoadedPackageFile ==
    IF initial.package_file.exists /\ ~arguments.rebuild
    THEN initial.package_file.content ELSE TemplatePackageFile
IsPackageLine(line) == line[1] # "#" /\ Range(line) \ {" ", "\n"} # {}
PackageLines(lines) == SelectSeq(lines, IsPackageLine)

\* C5 amended: the sync gets the user's packages followed by the names on the
\* package lines of the build directory's package file, in this order, and
\* nothing else; no name is added for a built AUR package.
C5_SyncListIsUserThenPackageFile ==
    \A i \in Calls("pacman -Syw") :
        LET names == PackageLines(LoadedPackageFile) IN
          /\ Len(trace[i].arg) = Len(UserSupplied) + Len(names)
          /\ \A k \in DOMAIN UserSupplied : trace[i].arg[k] = UserSupplied[k]
          /\ \A k \in DOMAIN names :
                trace[i].arg[Len(UserSupplied) + k] \o <<"\n">> = names[k]

\* the sync ran after an AUR package was built, and its name was not a target
C5_Witness ==
    \E i \in Calls("pacman -Syw") :
        \E name \in BuiltAur : name \notin Range(trace[i].arg)

\* C6: mkarchiso is invoked only after the sync and then the index exited
\* zero; a sync or an index that exits non-zero is the last thing the process
\* does, and it ends with exit(1).
C6_SyncAndIndexGateTheBuild ==
    /\ \A m \in Calls("mkarchiso") :
          \E i \in Calls("pacman -Syw"), j \in Calls("repo-add") :
              i < j /\ j < m /\ ExitedZero(i) /\ ExitedZero(j)
    /\ \A i \in Calls("pacman -Syw") \cup Calls("repo-add") :
          ExitedNonZero(i) => (pc = "exit" /\ Len(trace) = i + 1)

\* the index exited non-zero after a sync that exited zero
C6_Witness ==
    /\ pc = "exit"
    /\ \E i \in Calls("pacman -Syw"), j \in Calls("repo-add") :
          ExitedZero(i) /\ ExitedNonZero(j)

\* the accepted package-name syntax: alphanumeric, "-" and "_"
NameChars == {"a", "b", "c", "d", "e", "f", "g", "h", "i", "j", "k", "l", "m",
              "n", "o", "p", "q", "r", "s", "t", "u", "v", "w", "x", "y", "z",
              "0", "1", "2", "3", "4", "5", "6", "7", "8", "9", "-", "_"}
HasBadName(value) ==
    \E i \in DOMAIN value : \E k \in DOMAIN value[i] : value[i][k] \notin NameChars
SetterOps == {"x.packages =", "x.aur_packages =", "self.packages +="}

\* C7: an inventory assignment whose list holds a name with a character
\* outside the accepted syntax fails and leaves both inventories as they were.
C7_BadNameAssignmentFails ==
    [][(/\ Len(trace') > Len(trace)
        /\ trace'[Len(trace) + 1].op \in SetterOps
        /\ HasBadName(trace'[Len(trace) + 1].arg))
          => (pc' = "exit" /\ packages' = packages /\ aur_packages' = aur_packages)]_vars

\* C8: the external validation runs on an inventory assignment exactly when
\* --skip-validation is not given.
C8_ValidationUnlessSkipped ==
    \A i \in DOMAIN trace :
        trace[i].op \in SetterOps =>
            (~arguments.skip_validation
                <=> (i < Len(trace) /\ trace[i + 1].op = "validate_package_list"))

\* the .zprofile as it was when insert_autorun_string was called
ZprofileBefore == IF arguments.rebuild THEN NoFile ELSE initial.zprofile

\* C9: with a double quote in the autorun string the call leaves .zprofile as
\* it was and ends the process with exit(1), and mkarchiso is never invoked;
\* a non-empty string without one is written inside the guarded snippet; an
\* empty or missing string leaves .zprofile as it was.
C9_AutorunQuoteRejected ==
    LET string == arguments.autorun
        quoted == Quote \in Range(string.text) IN
      /\ quoted => ~Called("mkarchiso")
      /\ Called("insert_autorun_string") =>
            IF quoted
            THEN pc = "exit" /\ LastOp = "insert_autorun_string"
                 /\ zprofile = ZprofileBefore
            ELSE IF string.given /\ string.text # <<>>
            THEN /\ zprofile.exists
                 /\ zprofile.content =
                       <<"[[ -z $DISPLAY && $XDG_VTNR -eq 1 ]] && sh -c ", "\"">>
                       \o string.text \o <<"\"">>
            ELSE zprofile = ZprofileBefore

\* a quoted string was rejected and the .zprofile of an earlier run is intact
C9_Witness ==
    /\ pc = "exit" /\ LastOp = "insert_autorun_string"
    /\ Quote \in Range(arguments.autorun.text)
    /\ zprofile.exists /\ zprofile = initial.zprofile

\* the method the --resources help promises for a descriptor
PromisedMethods(resource) ==
    IF StartsWith(resource, GitScheme) \/ EndsWith(resource, DotGit) THEN {"clone"}
    ELSE IF StartsWith(resource, Https) THEN {"download"}
    ELSE {"copy", "ignore"}

\* C10: every non-empty descriptor is handled by the method its shape calls
\* for: git:// or a trailing .git is cloned (an https:// URL ending in .git
\* too), any other https:// URL is downloaded, the rest is copied as a local
\* path or logged and skipped.
C10_ResourcesDispatchedByShape ==
    \A i \in DOMAIN trace :
        trace[i].op \in {"download", "clone", "copy", "ignore"} =>
            trace[i].op \in PromisedMethods(trace[i].arg)

\* C11: once the source-build phase is over, the home directory of the build
\* user holds neither the archive nor the build tree of any package that was
\* fetched, whether its build succeeded or not.
C11_NothingLeftInHome ==
    Called("build_aur_packages returns") =>
        \A i \in Calls("urlretrieve") :
            /\ Archive(trace[i].arg) \notin host.home.entries
            /\ BuildTree(trace[i].arg) \notin host.home.entries

\* the cache holds a binary package of exactly this package
InCache(package_name) == cache.exists /\ PkgFile(package_name) \in cache.entries

\* C12: in a pass of the loop the package is fetched (the fetch is tried) if
\* and only if a rebuild is forced or the cache holds no binary package of
\* exactly that package.
C12_BuiltIffForcedOrNotCached ==
    [][pc = "build_aur_package" =>
          ((trace' # trace)
              <=> (arguments.rebuild \/ ~InCache(aur_packages[index])))]_vars

\* C13: with --save-offline-repository-cache, after the step that moves the
\* saved caches back, the cache directory in the build directory holds the
\* packages it held when the run started.
C13_SavedCacheIsMovedBack ==
    (/\ arguments.save_offline_repository_cache
     /\ pc = "build_aur_packages"
     /\ initial.cache.exists)
        => (cache.exists /\ initial.cache.entries \subseteq cache.entries)

\* the AUR packages named in the package file
AurNamesInPackageFile ==
    {name \in Range(aur_packages) :
        package_file.exists /\ name \o <<"\n">> \in Range(package_file.content)}

\* C14: when mkarchiso is invoked, every AUR package named in the package
\* file has a binary package in the repository cache.
C14_ListedAurPackagesAreCached ==
    Called("mkarchiso") => \A name \in AurNamesInPackageFile : InCache(name)

\* the package names on the template's package file
TemplateDefaults == Range(ReadPackageFile(TemplatePackageFile))

\* C15: in a second run with the same arguments (the packages and the AUR
\* packages named on the command line) and without --rebuild, on the build
\* directory a first run made from nothing, every target of the sync is one
\* of the user's packages or one of the template's defaults (no AUR package
\* name, nothing the first run added), and the package file written has the
\* same entries as the one the first run wrote.
C15_SecondRunSyncsUserAndDefaults ==
    (/\ first_run.ran
     /\ first_run.fresh
     /\ arguments.packages # <<>>
     /\ arguments.aur_packages # <<>>
     /\ ~arguments.rebuild) =>
        /\ \A i \in Calls("pacman -Syw") :
              Range(trace[i].arg) \subseteq Range(UserSupplied) \cup TemplateDefaults
        /\ Called("write_packages_to_package_file") =>
              Range(package_file.content) = Range(first_run.package_file.content)
====
